---- MODULE Spec2Model ----
(***************************************************************************)
(* Model of src/app.py: the chainlit movie chatbot whose on_message        *)
(* handler runs a textual function-calling loop around an LLM.             *)
(*                                                                         *)
(* Texts (model output, message contents) are sequences of tokens; a token *)
(* is a string standing for one lexical piece of the text (an identifier,  *)
(* a parenthesis, a comma, a blank, a double quote, a character run).      *)
(* Python's `s in text` is substring search over that sequence, and        *)
(* ast.parse / ast.literal_eval / json.loads are small parsers over it.    *)
(***************************************************************************)
EXTENDS Integers, Sequences, FiniteSets, TLC

(***************************************************************************)
(* Bounds of the exploration.                                              *)
(***************************************************************************)
\* longest session history explored by Spec
MaxHist == 6
\* longest session history explored by SpecRepeat
MaxRepeatHist == 15

(***************************************************************************)
(* Python's `needle in text` (str.__contains__), lines 139/156/174/189.    *)
(***************************************************************************)
Contains(text, needle) ==
    \E i \in 1..(Len(text) - Len(needle) + 1) :
        \A j \in 1..Len(needle) : text[i + j - 1] = needle[j]

\* the four substrings the dispatch loop looks for
NowPlayingForm == <<"get_now_playing_movies", "(", ")">>
ShowtimesForm == <<"get_showtimes", "(">>
ConfirmForm == <<"confirm_ticket_purchase", "(">>
BuyForm == <<"buy_ticket", "(">>

(***************************************************************************)
(* Lexical classes of tokens, as Python's tokenizer sees them.             *)
(***************************************************************************)
Identifiers ==
    {"get_now_playing_movies", "get_showtimes", "confirm_ticket_purchase",
     "buy_ticket", "get_reviews", "foo", "Sure", "Here", "are", "movies", "x"}
Digits == {"1"}
Quote == "q"
Blank == " "

\* index of the first Quote at or after position i, 0 when there is none
RECURSIVE NextQuote(_, _)
NextQuote(text, i) ==
    IF i > Len(text) THEN 0
    ELSE IF text[i] = Quote THEN i
    ELSE NextQuote(text, i + 1)

Tok(cls, val) == [cls |-> cls, val |-> val]

(***************************************************************************)
(* Tokenizer of ast.parse: blanks between tokens are dropped, a quoted run *)
(* becomes one STR token holding the characters between the quotes, an     *)
(* unterminated quote or any other character is a SyntaxError.             *)
(***************************************************************************)
RECURSIVE Lex(_, _, _)
Lex(text, i, acc) ==
    IF i > Len(text) THEN [ok |-> TRUE, toks |-> acc]
    ELSE IF text[i] = Blank THEN Lex(text, i + 1, acc)
    ELSE IF text[i] = Quote THEN
        LET j == NextQuote(text, i + 1) IN
        IF j = 0 THEN [ok |-> FALSE, toks |-> <<>>]
        ELSE Lex(text, j + 1,
                 Append(acc, Tok("STR", SubSeq(text, i + 1, j - 1))))
    ELSE IF text[i] \in Identifiers THEN
        Lex(text, i + 1, Append(acc, Tok("NAME", <<text[i]>>)))
    ELSE IF text[i] \in Digits THEN
        Lex(text, i + 1, Append(acc, Tok("NUM", <<text[i]>>)))
    ELSE IF text[i] \in {"(", ")", ","} THEN
        Lex(text, i + 1, Append(acc, Tok(text[i], <<>>)))
    ELSE [ok |-> FALSE, toks |-> <<>>]

(***************************************************************************)
(* Expression parser of ast.parse(mode="eval"), restricted to the grammar  *)
(*   expr ::= atom ( "(" [expr ("," expr)* [","]] ")" )*                   *)
(*   atom ::= NAME | NUM | STR+                                            *)
(* A node is [type, val, func, args]; type is Name, Constant or Call.      *)
(***************************************************************************)
Node(type, val, func, args) ==
    [type |-> type, val |-> val, func |-> func, args |-> args]
ParseFail == [ok |-> FALSE, pos |-> 0, node |-> <<>>, args |-> <<>>]
ParseOk(pos, node, args) == [ok |-> TRUE, pos |-> pos, node |-> node, args |-> args]

\* adjacent string literals are concatenated into one Constant
RECURSIVE ParseStrings(_, _, _)
ParseStrings(toks, i, val) ==
    IF i <= Len(toks) /\ toks[i].cls = "STR"
    THEN ParseStrings(toks, i + 1, val \o toks[i].val)
    ELSE ParseOk(i, Node("Constant", val, <<>>, <<>>), <<>>)

ParseAtom(toks, i) ==
    IF i > Len(toks) THEN ParseFail
    ELSE IF toks[i].cls = "NAME"
        THEN ParseOk(i + 1, Node("Name", toks[i].val, <<>>, <<>>), <<>>)
    ELSE IF toks[i].cls = "NUM"
        THEN ParseOk(i + 1, Node("Constant", toks[i].val, <<>>, <<>>), <<>>)
    ELSE IF toks[i].cls = "STR" THEN ParseStrings(toks, i, <<>>)
    ELSE ParseFail

RECURSIVE ParseExpr(_, _)
RECURSIVE ParseTrailers(_, _, _)
RECURSIVE ParseArgs(_, _, _)
ParseExpr(toks, i) ==
    LET a == ParseAtom(toks, i) IN
    IF a.ok THEN ParseTrailers(toks, a.pos, a.node) ELSE ParseFail

ParseTrailers(toks, i, node) ==
    IF i <= Len(toks) /\ toks[i].cls = "("
    THEN LET r == ParseArgs(toks, i + 1, <<>>) IN
         IF r.ok
         THEN ParseTrailers(toks, r.pos, Node("Call", <<>>, node, r.args))
         ELSE ParseFail
    ELSE ParseOk(i, node, <<>>)

ParseArgs(toks, i, acc) ==
    IF i > Len(toks) THEN ParseFail
    ELSE IF toks[i].cls = ")" THEN ParseOk(i + 1, <<>>, acc)
    ELSE LET e == ParseExpr(toks, i) IN
         IF ~e.ok \/ e.pos > Len(toks) THEN ParseFail
         ELSE IF toks[e.pos].cls = ","
             THEN ParseArgs(toks, e.pos + 1, Append(acc, e.node))
         ELSE IF toks[e.pos].cls = ")"
             THEN ParseOk(e.pos + 1, <<>>, Append(acc, e.node))
         ELSE ParseFail

(***************************************************************************)
(* ast.parse(function_call_str, mode="eval"), line 26: the tree, or the    *)
(* SyntaxError it raises (a leading blank is an IndentationError, which is *)
(* a SyntaxError).                                                         *)
(***************************************************************************)
AstParse(text) ==
    IF Len(text) = 0 \/ text[1] = Blank THEN [exc |-> "SyntaxError", body |-> <<>>]
    ELSE LET l == Lex(text, 1, <<>>) IN
         IF ~l.ok THEN [exc |-> "SyntaxError", body |-> <<>>]
         ELSE LET e == ParseExpr(l.toks, 1) IN
              IF e.ok /\ e.pos = Len(l.toks) + 1
              THEN [exc |-> "none", body |-> e.node]
              ELSE [exc |-> "SyntaxError", body |-> <<>>]

\* ast.literal_eval(arg), line 34: only constants evaluate
IsLiteral(node) == node.type = "Constant"

(***************************************************************************)
(* parse_function_call_args, lines 24-37: the list of argument values, or  *)
(* the exception that leaves the function.                                 *)
(***************************************************************************)
parse_function_call_args(function_call_str) ==
    LET tree == AstParse(function_call_str) IN
    IF tree.exc # "none" THEN [exc |-> tree.exc, value |-> <<>>]
    ELSE LET call_node == tree.body IN
         IF call_node.type = "Call"
         THEN IF \A k \in 1..Len(call_node.args) : IsLiteral(call_node.args[k])
              THEN [exc |-> "none",
                    value |-> [k \in 1..Len(call_node.args) |-> call_node.args[k].val]]
              ELSE [exc |-> "ValueError", value |-> <<>>]
         ELSE [exc |-> "ValueError", value |-> <<>>]

\* the name of the function a text calls, "" when the text is not a call of a name
Callee(text) ==
    LET tree == AstParse(text) IN
    IF tree.exc = "none" /\ tree.body.type = "Call" /\ tree.body.func.type = "Name"
    THEN tree.body.func.val[1]
    ELSE ""

(***************************************************************************)
(* json.loads, line 113, over the token form of the decision text:         *)
(*   value  ::= "{" [pair ("," pair)*] "}" | "[" scalar "]" | scalar       *)
(*   pair   ::= key ":" scalar                                             *)
(* The result is a dict (a function from keys to scalars), a list or a     *)
(* scalar; anything else raises JSONDecodeError.                           *)
(***************************************************************************)
JsonKeys == {"movie", "id", "fetch_reviews", "rationale"}
JsonScalars == {"true", "false", "A", "1", "r"}
JsonFail == [exc |-> "JSONDecodeError", kind |-> "none", dict |-> <<>>]
EmptyDict == [k \in {} |-> "false"]

\* the pairs from position i up to the closing brace, which must end the text
RECURSIVE JsonPairs(_, _, _)
JsonPairs(text, i, acc) ==
    IF i + 2 > Len(text) THEN JsonFail
    ELSE IF text[i] \in JsonKeys /\ text[i + 1] = ":" /\ text[i + 2] \in JsonScalars
    THEN LET d == (text[i] :> text[i + 2]) @@ acc IN
         IF i + 3 > Len(text) THEN JsonFail
         ELSE IF text[i + 3] = "}" /\ i + 3 = Len(text)
             THEN [exc |-> "none", kind |-> "dict", dict |-> d]
         ELSE IF text[i + 3] = "," THEN JsonPairs(text, i + 4, d)
         ELSE JsonFail
    ELSE JsonFail

JsonLoads(text) ==
    IF Len(text) = 1 /\ text[1] \in JsonScalars
        THEN [exc |-> "none", kind |-> "scalar", dict |-> <<>>]
    ELSE IF Len(text) = 3 /\ text[1] = "[" /\ text[2] \in JsonScalars /\ text[3] = "]"
        THEN [exc |-> "none", kind |-> "list", dict |-> <<>>]
    ELSE IF Len(text) = 2 /\ text[1] = "{" /\ text[2] = "}"
        THEN [exc |-> "none", kind |-> "dict", dict |-> EmptyDict]
    ELSE IF Len(text) > 2 /\ text[1] = "{" THEN JsonPairs(text, 2, EmptyDict)
    ELSE JsonFail

\* dict.get(key, default), lines 114-116
DictGet(d, key, default) == IF key \in DOMAIN d THEN d[key] ELSE default

\* every decoded scalar taken as true
TruthyAlways(v) == TRUE

\* Python truth value of a decoded scalar, line 114
Truthy(v) == v \notin {"false", "none"}

(***************************************************************************)
(* Message contents.                                                       *)
(***************************************************************************)
Msg(role, content) == [role |-> role, content |-> content]

\* SYSTEM_PROMPT, lines 44-59
SYSTEM_PROMPT == <<"SYSTEM_PROMPT">>
\* the augmenter's local system_prompt, lines 88-104
DecisionPrompt == <<"DECISION_PROMPT">>
\* str(e) of an exception raised by a capability
Cause == <<"cause">>

\* the f-string of lines 143-145
NowPlayingContent(now_playing_movies) == <<"Current movies:">> \o now_playing_movies
\* line 162
ShowtimesError == <<"An error occurred while fetching showtimes:">> \o Cause
\* lines 197-199
BuyError == <<"An error occurred while purchasing the ticket:">> \o Cause
\* line 178
ConfirmContent(content) == <<"The user has confirmed their purchase for">> \o content
\* lines 118-122
ReviewContent(movie, outcome) ==
    <<"MOVIE REVIEW CONTEXT:">> \o
    (IF outcome = "ok" THEN <<"Reviews for", movie, "REVIEWS">>
     ELSE <<"An error occurred while fetching reviews:">> \o Cause)

\* text returned by the imported capabilities (lines 6-11) when they return
get_now_playing_movies == <<"NOW_PLAYING">>
get_showtimes(movie, location) == <<"SHOWTIMES">> \o movie \o location
buy_ticket(theater, movie, showtime) == <<"TICKET">> \o theater \o movie \o showtime

\* a capability call either returns or raises
Outcomes == {"ok", "raise"}

(***************************************************************************)
(* Inputs: what the user types, what the model answers in the main loop,   *)
(* and what it answers to the augmenter's decision prompt.                 *)
(***************************************************************************)
Str(c) == <<Quote, c, Quote>>
UserInputs == {<<"What's playing now?">>}

ProseText == <<"Here", " ", "are", " ", "movies">>
NowPlayingCall == <<"get_now_playing_movies", "(", ")">>
NowPlayingBlankCall == <<"get_now_playing_movies", "(", " ", ")">>
ShowtimesCall == <<"get_showtimes", "(">> \o Str("A") \o <<",">> \o Str("B") \o <<")">>
ShowtimesOneArg == <<"get_showtimes", "(">> \o Str("A") \o <<")">>
ShowtimesIdentArg == <<"get_showtimes", "(", "x", ",">> \o Str("B") \o <<")">>
ShowtimesInProse == <<"Sure", " ">> \o ShowtimesCall
ShowtimesQuotingNowPlaying ==
    <<"get_showtimes", "(", Quote>> \o NowPlayingForm \o <<Quote, ",">> \o Str("B") \o <<")">>
ConfirmCall ==
    <<"confirm_ticket_purchase", "(">> \o Str("A") \o <<",">> \o Str("B") \o <<",">>
        \o Str("C") \o <<")">>
ConfirmQuotingBuy ==
    <<"confirm_ticket_purchase", "(", Quote>> \o BuyForm \o <<Quote, ",">> \o Str("B")
        \o <<",">> \o Str("C") \o <<")">>
BuyCall ==
    <<"buy_ticket", "(">> \o Str("A") \o <<",">> \o Str("B") \o <<",">> \o Str("C") \o <<")">>
BuyTwoArgs == <<"buy_ticket", "(">> \o Str("A") \o <<",">> \o Str("B") \o <<")">>
BuyNestedCall ==
    <<"buy_ticket", "(", "foo", "(", ")", ",">> \o Str("B") \o <<",">> \o Str("C") \o <<")">>
FooQuotingBuy ==
    <<"foo", "(", Quote>> \o BuyForm \o <<Quote, ",">> \o Str("B") \o <<",">> \o Str("C")
        \o <<")">>
ReviewsCall == <<"get_reviews", "(", "1", ")">>

ModelOutputs ==
    {ProseText, NowPlayingCall, NowPlayingBlankCall, ShowtimesCall, ShowtimesOneArg,
     ShowtimesIdentArg, ShowtimesInProse, ShowtimesQuotingNowPlaying, ConfirmCall,
     ConfirmQuotingBuy, BuyCall, BuyTwoArgs, BuyNestedCall, FooQuotingBuy, ReviewsCall}

DecisionFetch ==
    <<"{", "movie", ":", "A", ",", "id", ":", "1", ",", "fetch_reviews", ":", "true", "}">>
DecisionNoFetch ==
    <<"{", "movie", ":", "A", ",", "id", ":", "1", ",", "fetch_reviews", ":", "false", "}">>
DecisionAbsent == <<"{", "movie", ":", "A", "}">>
\* the prompt's own example (lines 98-103) has no comma before "rationale"
DecisionAsPrompted == <<"{", "fetch_reviews", ":", "true", "rationale", ":", "r", "}">>
DecisionProse == <<"Sure">>
DecisionList == <<"[", "1", "]">>

DecisionOutputs ==
    {DecisionFetch, DecisionNoFetch, DecisionAbsent, DecisionAsPrompted, DecisionProse,
     DecisionList}

(***************************************************************************)
(* State.  on_message runs as a coroutine of one event loop: a task runs   *)
(* alone from one await to the next, and nothing in src/app.py keeps a     *)
(* second on_message of the same session from starting while the first is  *)
(* suspended.  cur is the task that holds the event loop.                  *)
(***************************************************************************)
Tasks == {"t1", "t2"}
NoTask == "none"

VARIABLES
    message_history,   \* the list stored in the user session (lines 65-66, 129)
    pc,                \* where each on_message coroutine stands
    cur,               \* the coroutine running now, NoTask when all are suspended
    response_message,  \* response_message.content of each coroutine
    new_msg_history,   \* the augmenter's local list (line 106)
    decision,          \* response.choices[0].message.content of line 112
    exc,               \* the exception that left on_message, "none" otherwise
    turnTexts,         \* texts generated by the main loop in the current turn
    serviced,          \* branch of the while loop taken in each dispatch cycle
    invoked            \* capability calls made in the current turn

vars ==
    <<message_history, pc, cur, response_message, new_msg_history, decision, exc,
      turnTexts, serviced, invoked>>

Invocation(name, args, outcome, cycle) ==
    [name |-> name, args |-> args, outcome |-> outcome, cycle |-> cycle]

\* on_chat_start, lines 62-66, has run
Init ==
    /\ message_history = <<Msg("system", SYSTEM_PROMPT)>>
    /\ pc = [t \in Tasks |-> "idle"]
    /\ cur = NoTask
    /\ response_message = [t \in Tasks |-> <<>>]
    /\ new_msg_history = [t \in Tasks |-> <<>>]
    /\ decision = [t \in Tasks |-> <<>>]
    /\ exc = [t \in Tasks |-> "none"]
    /\ turnTexts = [t \in Tasks |-> <<>>]
    /\ serviced = [t \in Tasks |-> <<>>]
    /\ invoked = [t \in Tasks |-> <<>>]

\* an exception leaves on_message: the coroutine ends, the event loop is free
Raise(t, e) ==
    /\ pc' = [pc EXCEPT ![t] = "raised"]
    /\ exc' = [exc EXCEPT ![t] = e]
    /\ cur' = NoTask

(***************************************************************************)
(* on_message, lines 129-130: a turn starts, the user message is appended. *)
(* again: whether a coroutine that has ended may be started anew.          *)
(***************************************************************************)
OnMessage(t, content, hcap, again) ==
    /\ cur = NoTask
    /\ pc[t] = "idle" \/ (again /\ pc[t] \in {"done", "raised"})
    /\ Len(message_history) < hcap
    /\ message_history' = Append(message_history, Msg("user", content))
    /\ pc' = [pc EXCEPT ![t] = "augment"]
    /\ cur' = t
    /\ response_message' = [response_message EXCEPT ![t] = <<>>]
    /\ new_msg_history' = [new_msg_history EXCEPT ![t] = <<>>]
    /\ decision' = [decision EXCEPT ![t] = <<>>]
    /\ exc' = [exc EXCEPT ![t] = "none"]
    /\ turnTexts' = [turnTexts EXCEPT ![t] = <<>>]
    /\ serviced' = [serviced EXCEPT ![t] = <<>>]
    /\ invoked' = [invoked EXCEPT ![t] = <<>>]

\* lines 106-108: the list sent with the decision prompt
DecisionHistory(msg_history) ==
    Append([msg_history EXCEPT ![1] = Msg("system", DecisionPrompt)],
           Msg("system", DecisionPrompt))

\* the substitution of line 107 made on the session list itself
SubstitutionInPlace(msg_history) ==
    [msg_history EXCEPT ![1] = Msg("system", DecisionPrompt)]

\* msg_history as lines 106-108 leave it: they write to a copy
AfterSubstitution(msg_history) == msg_history

(***************************************************************************)
(* add_review_context_if_needed, lines 106-111: build the decision list    *)
(* and await the non-streaming completion.                                 *)
(***************************************************************************)
AugmentPrepare(t) ==
    /\ cur = t
    /\ pc[t] = "augment"
    /\ new_msg_history' = [new_msg_history EXCEPT ![t] = DecisionHistory(message_history)]
    /\ message_history' = AfterSubstitution(message_history)
    /\ pc' = [pc EXCEPT ![t] = "aug_await"]
    /\ cur' = NoTask
    /\ UNCHANGED <<response_message, decision, exc, turnTexts, serviced, invoked>>

(***************************************************************************)
(* add_review_context_if_needed, lines 112-123, on the completion content. *)
(***************************************************************************)
AugmentDecide(t, content, outcome, hcap) ==
    /\ cur = NoTask
    /\ pc[t] = "aug_await"
    /\ decision' = [decision EXCEPT ![t] = content]
    /\ UNCHANGED <<response_message, new_msg_history, turnTexts, serviced>>
    /\ LET response_json == JsonLoads(content) IN
       IF response_json.exc # "none"
       THEN /\ Raise(t, response_json.exc)
            /\ UNCHANGED <<message_history, invoked>>
       ELSE IF response_json.kind # "dict"
       THEN /\ Raise(t, "AttributeError")
            /\ UNCHANGED <<message_history, invoked>>
       ELSE IF Truthy(DictGet(response_json.dict, "fetch_reviews", "false"))
       THEN LET movie == DictGet(response_json.dict, "movie", "none")
                movie_id == DictGet(response_json.dict, "id", "none") IN
            /\ Len(message_history) < hcap
            /\ invoked' = [invoked EXCEPT ![t] =
                   Append(@, Invocation("get_reviews", <<movie_id>>, outcome, 0))]
            /\ message_history' =
                   Append(message_history, Msg("system", ReviewContent(movie, outcome)))
            /\ pc' = [pc EXCEPT ![t] = "generate"]
            /\ cur' = t
            /\ UNCHANGED exc
       ELSE /\ pc' = [pc EXCEPT ![t] = "generate"]
            /\ cur' = t
            /\ UNCHANGED <<message_history, invoked, exc>>

(***************************************************************************)
(* generate_response, lines 71-76, called at lines 134, 149, 167, 182 and  *)
(* 208: the coroutine suspends on the streaming completion.                *)
(***************************************************************************)
GenerateStart(t) ==
    /\ cur = t
    /\ pc[t] = "generate"
    /\ pc' = [pc EXCEPT ![t] = "gen_await"]
    /\ cur' = NoTask
    /\ UNCHANGED <<message_history, response_message, new_msg_history, decision, exc,
                   turnTexts, serviced, invoked>>

(***************************************************************************)
(* generate_response, lines 77-83, and the append that follows each call   *)
(* (lines 135, 152-154, 170-172, 185-187, 211-213).                        *)
(***************************************************************************)
GenerateReturn(t, content, hcap) ==
    /\ cur = NoTask
    /\ pc[t] = "gen_await"
    /\ Len(message_history) < hcap
    /\ response_message' = [response_message EXCEPT ![t] = content]
    /\ message_history' = Append(message_history, Msg("assistant", content))
    /\ turnTexts' = [turnTexts EXCEPT ![t] = Append(@, content)]
    /\ pc' = [pc EXCEPT ![t] = "inspect"]
    /\ cur' = t
    /\ UNCHANGED <<new_msg_history, decision, exc, serviced, invoked>>

\* the chain with the first test made on the opening parenthesis alone
BranchNowPlayingOpenParen(content) ==
    IF Contains(content, <<"get_now_playing_movies", "(">>) THEN "get_now_playing_movies"
    ELSE IF Contains(content, ShowtimesForm) THEN "get_showtimes"
    ELSE IF Contains(content, ConfirmForm) THEN "confirm_ticket_purchase"
    ELSE IF Contains(content, BuyForm) THEN "buy_ticket"
    ELSE "break"

\* the chain with get_reviews( dispatched like the other lookups
BranchReviewsAsCall(content) ==
    IF Contains(content, NowPlayingForm) \/ Contains(content, <<"get_reviews", "(">>)
        THEN "get_now_playing_movies"
    ELSE IF Contains(content, ShowtimesForm) THEN "get_showtimes"
    ELSE IF Contains(content, ConfirmForm) THEN "confirm_ticket_purchase"
    ELSE IF Contains(content, BuyForm) THEN "buy_ticket"
    ELSE "break"

\* the chain breaking on a purchase call
BranchWithoutBuy(content) ==
    IF Contains(content, NowPlayingForm) THEN "get_now_playing_movies"
    ELSE IF Contains(content, ShowtimesForm) THEN "get_showtimes"
    ELSE IF Contains(content, ConfirmForm) THEN "confirm_ticket_purchase"
    ELSE "break"

\* the chain with the confirm branch falling into the purchase
BranchConfirmBuys(content) ==
    IF Contains(content, NowPlayingForm) THEN "get_now_playing_movies"
    ELSE IF Contains(content, ShowtimesForm) THEN "get_showtimes"
    ELSE IF Contains(content, ConfirmForm) \/ Contains(content, BuyForm) THEN "buy_ticket"
    ELSE "break"

\* the chain without its confirm branch
BranchWithoutConfirm(content) ==
    IF Contains(content, NowPlayingForm) THEN "get_now_playing_movies"
    ELSE IF Contains(content, ShowtimesForm) THEN "get_showtimes"
    ELSE IF Contains(content, BuyForm) THEN "buy_ticket"
    ELSE "break"

\* the chain with the purchase tested before the confirmation
BranchBuyFirst(content) ==
    IF Contains(content, NowPlayingForm) THEN "get_now_playing_movies"
    ELSE IF Contains(content, ShowtimesForm) THEN "get_showtimes"
    ELSE IF Contains(content, BuyForm) THEN "buy_ticket"
    ELSE IF Contains(content, ConfirmForm) THEN "confirm_ticket_purchase"
    ELSE "break"

(***************************************************************************)
(* The if/elif chain of the while loop, lines 139, 156, 174, 189, 215.     *)
(***************************************************************************)
Branch(content) ==
    IF Contains(content, NowPlayingForm) THEN "get_now_playing_movies"
    ELSE IF Contains(content, ShowtimesForm) THEN "get_showtimes"
    ELSE IF Contains(content, ConfirmForm) THEN "confirm_ticket_purchase"
    ELSE IF Contains(content, BuyForm) THEN "buy_ticket"
    ELSE "break"

\* the tuple assignments of lines 157 and 190: n names take exactly n values
Unpack(parsed, n) ==
    IF parsed.exc # "none" THEN parsed
    ELSE IF Len(parsed.value) # n THEN [exc |-> "ValueError", value |-> <<>>]
    ELSE parsed

\* a dispatch cycle is entered: the coroutine is at the top of the loop body
AtBranch(t, name) ==
    /\ cur = t
    /\ pc[t] = "inspect"
    /\ Branch(response_message[t]) = name

\* the system message of a cycle overwrites the assistant message before it
InjectOverLast(t, content) ==
    /\ message_history' =
           [message_history EXCEPT ![Len(message_history)] = Msg("system", content)]
    /\ pc' = [pc EXCEPT ![t] = "generate"]
    /\ UNCHANGED <<cur, exc>>

\* the system message of a cycle is appended and the turn runs the augmenter again
InjectThenAugment(t, content) ==
    /\ message_history' = Append(message_history, Msg("system", content))
    /\ pc' = [pc EXCEPT ![t] = "augment"]
    /\ UNCHANGED <<cur, exc>>

\* the system message of a cycle is appended and the loop generates again
Inject(t, content) ==
    /\ message_history' = Append(message_history, Msg("system", content))
    /\ pc' = [pc EXCEPT ![t] = "generate"]
    /\ UNCHANGED <<cur, exc>>

\* lines 139-146: no try around the call
DispatchNowPlaying(t, outcome, hcap) ==
    /\ AtBranch(t, "get_now_playing_movies")
    /\ Len(message_history) < hcap
    /\ serviced' = [serviced EXCEPT ![t] = Append(@, "get_now_playing_movies")]
    /\ invoked' = [invoked EXCEPT ![t] =
           Append(@, Invocation("get_now_playing_movies", <<>>, outcome,
                                Len(serviced[t]) + 1))]
    /\ IF outcome = "ok"
       THEN Inject(t, NowPlayingContent(get_now_playing_movies))
       ELSE Raise(t, "Exception") /\ UNCHANGED message_history
    /\ UNCHANGED <<response_message, new_msg_history, decision, turnTexts>>

\* lines 156-164
DispatchShowtimes(t, outcome, hcap) ==
    /\ AtBranch(t, "get_showtimes")
    /\ Len(message_history) < hcap
    /\ serviced' = [serviced EXCEPT ![t] = Append(@, "get_showtimes")]
    /\ LET parsed == Unpack(parse_function_call_args(response_message[t]), 2) IN
       IF parsed.exc # "none"
       THEN Raise(t, parsed.exc) /\ UNCHANGED <<message_history, invoked>>
       ELSE LET movie == parsed.value[1]
                location == parsed.value[2] IN
            /\ invoked' = [invoked EXCEPT ![t] =
                   Append(@, Invocation("get_showtimes", parsed.value, outcome,
                                        Len(serviced[t]) + 1))]
            /\ Inject(t, IF outcome = "ok" THEN get_showtimes(movie, location)
                         ELSE ShowtimesError)
    /\ UNCHANGED <<response_message, new_msg_history, decision, turnTexts>>

\* the confirm branch making the purchase with the arguments it echoes
DispatchConfirmBuying(t, hcap) ==
    /\ AtBranch(t, "confirm_ticket_purchase")
    /\ Len(message_history) < hcap
    /\ serviced' = [serviced EXCEPT ![t] = Append(@, "confirm_ticket_purchase")]
    /\ invoked' = [invoked EXCEPT ![t] =
           Append(@, Invocation("buy_ticket", <<>>, "ok", Len(serviced[t]) + 1))]
    /\ Inject(t, ConfirmContent(response_message[t]))
    /\ UNCHANGED <<response_message, new_msg_history, decision, turnTexts>>

\* lines 174-180: no capability is called
DispatchConfirm(t, hcap) ==
    /\ AtBranch(t, "confirm_ticket_purchase")
    /\ Len(message_history) < hcap
    /\ serviced' = [serviced EXCEPT ![t] = Append(@, "confirm_ticket_purchase")]
    /\ Inject(t, ConfirmContent(response_message[t]))
    /\ UNCHANGED <<response_message, new_msg_history, decision, turnTexts, invoked>>

\* lines 189-205
DispatchBuy(t, outcome, hcap) ==
    /\ AtBranch(t, "buy_ticket")
    /\ Len(message_history) < hcap
    /\ serviced' = [serviced EXCEPT ![t] = Append(@, "buy_ticket")]
    /\ LET parsed == Unpack(parse_function_call_args(response_message[t]), 3) IN
       IF parsed.exc # "none"
       THEN Raise(t, parsed.exc) /\ UNCHANGED <<message_history, invoked>>
       ELSE LET theater == parsed.value[1]
                movie == parsed.value[2]
                showtime == parsed.value[3] IN
            /\ invoked' = [invoked EXCEPT ![t] =
                   Append(@, Invocation("buy_ticket", parsed.value, outcome,
                                        Len(serviced[t]) + 1))]
            /\ Inject(t, IF outcome = "ok" THEN buy_ticket(theater, movie, showtime)
                         ELSE BuyError)
    /\ UNCHANGED <<response_message, new_msg_history, decision, turnTexts>>

\* lines 215-216: the loop breaks and on_message returns
Terminate(t) ==
    /\ AtBranch(t, "break")
    /\ pc' = [pc EXCEPT ![t] = "done"]
    /\ cur' = NoTask
    /\ UNCHANGED <<message_history, response_message, new_msg_history, decision, exc,
                   turnTexts, serviced, invoked>>

Next ==
    \/ \E t \in Tasks, content \in UserInputs : OnMessage(t, content, MaxHist - 1, TRUE)
    \/ \E t \in Tasks : AugmentPrepare(t)
    \/ \E t \in Tasks, content \in DecisionOutputs, outcome \in Outcomes :
           AugmentDecide(t, content, outcome, MaxHist)
    \/ \E t \in Tasks : GenerateStart(t)
    \/ \E t \in Tasks, content \in ModelOutputs : GenerateReturn(t, content, MaxHist)
    \/ \E t \in Tasks, outcome \in Outcomes : DispatchNowPlaying(t, outcome, MaxHist)
    \/ \E t \in Tasks, outcome \in Outcomes : DispatchShowtimes(t, outcome, MaxHist)
    \/ \E t \in Tasks : DispatchConfirm(t, MaxHist)
    \/ \E t \in Tasks, outcome \in Outcomes : DispatchBuy(t, outcome, MaxHist)
    \/ \E t \in Tasks : Terminate(t)

Spec == Init /\ [][Next]_vars

(***************************************************************************)
(* One turn of one coroutine against a model that answers every prompt of  *)
(* the turn with the text it gave first.                                   *)
(***************************************************************************)
RepeatOutputs(t) ==
    IF turnTexts[t] = <<>> THEN ModelOutputs ELSE {turnTexts[t][1]}

NextRepeat ==
    \/ \E content \in UserInputs : OnMessage("t1", content, MaxRepeatHist - 1, FALSE)
    \/ AugmentPrepare("t1")
    \/ \E content \in DecisionOutputs, outcome \in Outcomes :
           AugmentDecide("t1", content, outcome, MaxRepeatHist)
    \/ GenerateStart("t1")
    \/ \E content \in RepeatOutputs("t1") : GenerateReturn("t1", content, MaxRepeatHist)
    \/ \E outcome \in Outcomes : DispatchNowPlaying("t1", outcome, MaxRepeatHist)
    \/ \E outcome \in Outcomes : DispatchShowtimes("t1", outcome, MaxRepeatHist)
    \/ DispatchConfirm("t1", MaxRepeatHist)
    \/ \E outcome \in Outcomes : DispatchBuy("t1", outcome, MaxRepeatHist)
    \/ Terminate("t1")

SpecRepeat == Init /\ [][NextRepeat]_vars

(***************************************************************************)
(* Properties.                                                             *)
(***************************************************************************)
Last(seq) == seq[Len(seq)]
IsPrefix(a, b) == Len(a) <= Len(b) /\ SubSeq(b, 1, Len(a)) = a
CallForms == {NowPlayingForm, ShowtimesForm, ConfirmForm, BuyForm}
HasCallForm(text) == \E form \in CallForms : Contains(text, form)
\* content ends with the cause of a failure
CarriesFailure(content) ==
    /\ Len(content) > Len(Cause)
    /\ SubSeq(content, Len(content) - Len(Cause) + 1, Len(content)) = Cause
\* task t calls a capability of the dispatch loop in this step and the call raises
LoopCallRaises(t) ==
    /\ Len(invoked'[t]) = Len(invoked[t]) + 1
    /\ Last(invoked'[t]).cycle > 0
    /\ Last(invoked'[t]).outcome = "raise"

\* C1: whenever a capability called by the dispatch loop (get_now_playing_movies,
\* get_showtimes, buy_ticket) raises, the turn is not aborted: exactly one system
\* message carrying the failure text is appended and the loop goes on to generate.
C1_HandlerFailureContinues ==
    [][\A t \in Tasks :
          LoopCallRaises(t) =>
              /\ pc'[t] = "generate"
              /\ exc'[t] = "none"
              /\ Len(message_history') = Len(message_history) + 1
              /\ Last(message_history').role = "system"
              /\ CarriesFailure(Last(message_history').content)]_vars

\* C2: buy_ticket is invoked only in a dispatch cycle whose inspected text contains
\* buy_ticket( ; a turn whose call-bearing responses all contain
\* confirm_ticket_purchase( and none buy_ticket( never invokes buy_ticket.
C2_BuyOnlyOnBuyForm ==
    \A t \in Tasks :
        /\ \A i \in 1..Len(invoked[t]) :
               invoked[t][i].name = "buy_ticket" =>
                   /\ invoked[t][i].cycle \in 1..Len(turnTexts[t])
                   /\ Contains(turnTexts[t][invoked[t][i].cycle], BuyForm)
        /\ (\A i \in 1..Len(turnTexts[t]) :
                HasCallForm(turnTexts[t][i]) =>
                    /\ Contains(turnTexts[t][i], ConfirmForm)
                    /\ ~Contains(turnTexts[t][i], BuyForm))
           => \A i \in 1..Len(invoked[t]) : invoked[t][i].name # "buy_ticket"

\* a turn whose only call is a confirmation has ended without any purchase
C2_Witness ==
    \E t \in Tasks :
        /\ pc[t] = "done"
        /\ turnTexts[t] = <<ConfirmCall, ProseText>>
        /\ serviced[t] = <<"confirm_ticket_purchase">>
        /\ invoked[t] = <<>>

\* task t is about to run the get_showtimes or buy_ticket branch on its response
AtParsingBranch(t) ==
    /\ cur = t
    /\ pc[t] = "inspect"
    /\ Branch(response_message[t]) \in {"get_showtimes", "buy_ticket"}

\* the turn of t ends in this step as a turn ends on plain text
EndsAsPlainText(t) ==
    /\ pc'[t] = "done"
    /\ exc'[t] = "none"
    /\ message_history' = message_history
    /\ invoked' = invoked
    /\ Last(message_history') = Msg("assistant", response_message[t])

\* C3: when the inspected text passes the get_showtimes( or buy_ticket( check but is
\* not a valid literal-only call, no handler is invoked, no system message is
\* appended and the turn terminates normally with the raw text as last message.
C3_MalformedCallTerminates ==
    [][\A t \in Tasks :
          (AtParsingBranch(t) /\ parse_function_call_args(response_message[t]).exc # "none")
              => EndsAsPlainText(t)]_vars

\* C4: the number of dispatch cycles of one turn never exceeds the configured
\* maximum (five cycles of a model re-emitting the same call hit the limit).
C4_DispatchCyclesBounded ==
    \A t \in Tasks : Len(serviced[t]) <= 5

\* C5: the loop terminates at the first response without a call form: a finished
\* turn of k+1 generations ran exactly k dispatch cycles, its first k responses
\* carry a call form, the last one none, and no handler ran after the k-th cycle.
C5_StopsAtFirstPlainResponse ==
    \A t \in Tasks :
        LET n == Len(turnTexts[t]) IN
        /\ \A i \in 1..(n - 1) : HasCallForm(turnTexts[t][i])
        /\ pc[t] = "done" =>
               /\ n >= 1
               /\ ~HasCallForm(turnTexts[t][n])
               /\ Len(serviced[t]) = n - 1
               /\ \A i \in 1..Len(invoked[t]) : invoked[t][i].cycle <= n - 1

\* a turn has ended after one dispatched call and two generations
C5_Witness ==
    \E t \in Tasks :
        /\ pc[t] = "done"
        /\ Len(turnTexts[t]) = 2
        /\ Len(serviced[t]) = 1
        /\ Len(invoked[t]) = 1
        /\ invoked[t][1].outcome = "ok"

\* C6: message_history[0] always exists and is the system message holding the real
\* instruction prompt; the decision prompt is never at index 0 of the session.
C6_SystemPromptAtIndexZero ==
    /\ Len(message_history) >= 1
    /\ message_history[1] = Msg("system", SYSTEM_PROMPT)

\* the augmenter is suspended with the decision prompt at index 0 of its own list
C6_Witness ==
    \E t \in Tasks :
        /\ pc[t] = "aug_await"
        /\ Len(new_msg_history[t]) >= 1
        /\ new_msg_history[t][1] = Msg("system", DecisionPrompt)

\* C7: the session history is append-only: the history before any step is a prefix
\* of the history after it.
C7_AppendOnly ==
    [][IsPrefix(message_history, message_history')]_vars

\* the augmenter and a dispatch cycle have both appended to the session
C7_Witness ==
    \E t \in Tasks :
        /\ Len(invoked[t]) >= 1
        /\ invoked[t][1].name = "get_reviews"
        /\ Len(serviced[t]) >= 1
        /\ pc[t] = "generate"
        /\ Last(message_history).role = "system"

\* the priority order of the dispatch loop
Priority ==
    <<[name |-> "get_now_playing_movies", form |-> NowPlayingForm],
      [name |-> "get_showtimes", form |-> ShowtimesForm],
      [name |-> "confirm_ticket_purchase", form |-> ConfirmForm],
      [name |-> "buy_ticket", form |-> BuyForm]>>
Matching(text) == {k \in 1..Len(Priority) : Contains(text, Priority[k].form)}
FirstMatching(text) ==
    Priority[CHOOSE k \in Matching(text) : \A m \in Matching(text) : k <= m].name

\* C8: each dispatch cycle services at most one capability, the first of
\* get_now_playing_movies, get_showtimes, confirm_ticket_purchase, buy_ticket whose
\* call form the inspected text contains; no lower-priority handler runs in it.
C8_OneCapabilityByPriority ==
    \A t \in Tasks :
        /\ Len(serviced[t]) <= Len(turnTexts[t])
        /\ \A c \in 1..Len(serviced[t]) :
               /\ Matching(turnTexts[t][c]) # {}
               /\ serviced[t][c] = FirstMatching(turnTexts[t][c])
        /\ \A i \in 1..Len(invoked[t]) :
               invoked[t][i].cycle > 0 =>
                   /\ invoked[t][i].cycle <= Len(serviced[t])
                   /\ invoked[t][i].name = serviced[t][invoked[t][i].cycle]
                   /\ \A j \in 1..Len(invoked[t]) :
                          invoked[t][j].cycle = invoked[t][i].cycle => j = i

\* a text carrying two call forms has been serviced
C8_Witness ==
    \E t \in Tasks :
        /\ Len(serviced[t]) >= 1
        /\ Cardinality(Matching(turnTexts[t][1])) >= 2
        /\ pc[t] = "generate"

\* C9: when a get_showtimes or buy_ticket call parses to a number of arguments other
\* than the arity (2 and 3), the handler is not invoked, no system message is
\* appended and the turn ends normally with the assistant text as last message.
C9_ArityMismatchTerminates ==
    [][\A t \in Tasks :
          (/\ AtParsingBranch(t)
           /\ parse_function_call_args(response_message[t]).exc = "none"
           /\ Len(parse_function_call_args(response_message[t]).value) #
                  (IF Branch(response_message[t]) = "get_showtimes" THEN 2 ELSE 3))
              => EndsAsPlainText(t)]_vars

\* C10: when the augmenter's decision response is not parseable JSON, the failure
\* stays inside the turn: augmentation is skipped, nothing is appended and the turn
\* goes on to the first generation of the main loop.
C10_UnparseableDecisionSkipped ==
    [][\A t \in Tasks :
          (/\ pc[t] = "aug_await"
           /\ pc'[t] # "aug_await"
           /\ JsonLoads(decision'[t]).exc # "none")
              => /\ pc'[t] = "generate"
                 /\ exc'[t] = "none"
                 /\ message_history' = message_history]_vars

\* C11: when the augmenter's decision response fails to parse, the step of
\* add_review_context_if_needed that parses it leaves the session history as the
\* function received it: nothing is appended, index 0 still holds the instruction
\* prompt and every message the function was given is unchanged.
C11_ParseFailureLeavesSession ==
    [][\A t \in Tasks :
          (/\ pc[t] = "aug_await"
           /\ pc'[t] # "aug_await"
           /\ JsonLoads(decision'[t]).exc # "none")
              => /\ Len(message_history') = Len(message_history)
                 /\ message_history'[1] = Msg("system", SYSTEM_PROMPT)
                 /\ \A i \in 2..(Len(new_msg_history[t]) - 1) :
                        message_history'[i] = new_msg_history[t][i]]_vars

\* a decision response has failed to parse
C11_Witness ==
    \E t \in Tasks :
        /\ pc[t] = "raised"
        /\ exc[t] = "JSONDecodeError"
        /\ decision[t] = DecisionAsPrompted

ReviewCalls(t) == {i \in 1..Len(invoked[t]) : invoked[t][i].name = "get_reviews"}
IsReviewContext(msg) ==
    msg.role = "system" /\ msg.content # <<>> /\ msg.content[1] = "MOVIE REVIEW CONTEXT:"

\* C12: the augmenter runs once per turn, right after the user message is appended
\* and before the first generation; it is never entered from a dispatch cycle, so
\* a turn invokes get_reviews at most once and appends at most one MOVIE REVIEW
\* CONTEXT message.
C12_AugmenterOncePerTurn ==
    [][\A t \in Tasks :
          /\ (pc'[t] = "augment" /\ pc[t] # "augment") =>
                 /\ pc[t] \in {"idle", "done", "raised"}
                 /\ Len(message_history') = Len(message_history) + 1
                 /\ Last(message_history').role = "user"
          /\ pc[t] = "augment" => pc'[t] \in {"augment", "aug_await"}
          /\ (pc'[t] = "aug_await" /\ pc[t] # "aug_await") =>
                 (pc[t] = "augment" /\ turnTexts[t] = <<>>)
          /\ (turnTexts[t] = <<>> /\ turnTexts'[t] # <<>>) => decision[t] # <<>>
          /\ Cardinality(ReviewCalls(t)) <= 1
          /\ (Len(message_history') > Len(message_history)
                  /\ IsReviewContext(Last(message_history'))
                  /\ pc'[t] # pc[t]) =>
                 (pc[t] = "aug_await" /\ ReviewCalls(t) = {} /\ turnTexts[t] = <<>>)]_vars

\* a turn that fetched reviews has also run a dispatch cycle and generated again
C12_Witness ==
    \E t \in Tasks :
        /\ Cardinality(ReviewCalls(t)) = 1
        /\ Len(serviced[t]) = 1
        /\ Len(turnTexts[t]) = 2

\* task t is inside a turn
InTurn(t) == pc[t] \notin {"idle", "done", "raised"}

\* C13: two turns of a session never interleave: no on_message appends to the
\* history while another turn of the session has not yet ended.
C13_TurnsDoNotInterleave ==
    [][\A t \in Tasks :
          (Len(message_history') > Len(message_history) /\ pc'[t] # pc[t])
              => \A u \in Tasks \ {t} : ~InTurn(u)]_vars

\* the substring "<name>("
OpenParenForm(name) == <<name, "(">>
\* the substring the loop tests for a name (lines 139, 156, 174, 189)
TestedForm(name) == Priority[CHOOSE k \in 1..Len(Priority) : Priority[k].name = name].form
DispatchedNames == {Priority[k].name : k \in 1..Len(Priority)}

\* what the turns show of candidacy under the substring FormOf(name): a serviced
\* capability is one whose substring the inspected text contains, and a turn ends
\* only on a text containing the substring of no capability
CandidatesBy(FormOf(_)) ==
    \A t \in Tasks :
        \A i \in 1..Len(turnTexts[t]) :
            /\ i <= Len(serviced[t]) =>
                   Contains(turnTexts[t][i], FormOf(serviced[t][i]))
            /\ (i > Len(serviced[t]) /\ pc[t] = "done") =>
                   \A name \in DispatchedNames : ~Contains(turnTexts[t][i], FormOf(name))

\* C14 as stated: a capability is a candidate exactly when the text contains
\* "<name>(", for all four names, get_now_playing_movies included.
C14_CandidateIffOpenParen == CandidatesBy(OpenParenForm)

\* C14 as amended: a capability is a candidate exactly when the text contains
\* "<name>(" for get_showtimes, confirm_ticket_purchase and buy_ticket, and
\* "get_now_playing_movies()" with its closing parenthesis for
\* get_now_playing_movies.
C14_CandidateIffTestedForm == CandidatesBy(TestedForm)

\* a turn has ended on get_now_playing_movies( ) written with a blank inside
C14_Witness ==
    \E t \in Tasks :
        /\ pc[t] = "done"
        /\ Last(turnTexts[t]) = NowPlayingBlankCall
        /\ Len(serviced[t]) = Len(turnTexts[t]) - 1

\* C15: whenever get_showtimes or buy_ticket is invoked, the call parsed from the
\* inspected text names that same capability and the arguments passed are that
\* call's literal arguments in order; a text whose parsed call names another
\* function never gets a handler invoked.
C15_InvokedCalleeMatches ==
    \A t \in Tasks :
        \A i \in 1..Len(invoked[t]) :
            invoked[t][i].name \in {"get_showtimes", "buy_ticket"} =>
                LET text == turnTexts[t][invoked[t][i].cycle] IN
                /\ Callee(text) = invoked[t][i].name
                /\ invoked[t][i].args = parse_function_call_args(text).value

\* C16 as stated: once a confirm_ticket_purchase cycle has been dispatched in a
\* turn, buy_ticket is not invoked in the remainder of that turn.
C16_NoBuyAfterConfirmInTurn ==
    \A t \in Tasks :
        \A c \in 1..Len(serviced[t]) :
            serviced[t][c] = "confirm_ticket_purchase" =>
                \A i \in 1..Len(invoked[t]) :
                    invoked[t][i].name = "buy_ticket" => invoked[t][i].cycle < c

\* C16 as amended: a confirm_ticket_purchase cycle invokes no capability itself;
\* in the remainder of the turn buy_ticket is invoked only by a later dispatch
\* cycle that takes the buy_ticket branch on a text containing buy_ticket( .
C16_BuyAfterConfirmNeedsBuyCycle ==
    \A t \in Tasks :
        \A c \in 1..Len(serviced[t]) :
            serviced[t][c] = "confirm_ticket_purchase" =>
                \A i \in 1..Len(invoked[t]) :
                    /\ invoked[t][i].cycle # c
                    /\ (invoked[t][i].name = "buy_ticket" /\ invoked[t][i].cycle > c) =>
                           /\ invoked[t][i].cycle <= Len(serviced[t])
                           /\ serviced[t][invoked[t][i].cycle] = "buy_ticket"
                           /\ Contains(turnTexts[t][invoked[t][i].cycle], BuyForm)

\* a turn has confirmed and then bought in its next dispatch cycle
C16_Witness ==
    \E t \in Tasks :
        /\ serviced[t] = <<"confirm_ticket_purchase", "buy_ticket">>
        /\ Len(invoked[t]) >= 1
        /\ Last(invoked[t]).name = "buy_ticket"
        /\ Last(invoked[t]).cycle = 2

\* the decision text asks for the reviews
FetchRequested(content) == Contains(content, <<"fetch_reviews", ":", "true">>)

\* C17: on a parseable decision, fetch_reviews true makes the augmenter invoke
\* get_reviews exactly once and append exactly one system message, holding the
\* reviews or, when get_reviews fails, the failure description; fetch_reviews
\* false or absent invokes nothing and appends nothing.
C17_FetchDecisionHonoured ==
    [][\A t \in Tasks :
          (/\ pc[t] = "aug_await"
           /\ pc'[t] # "aug_await"
           /\ JsonLoads(decision'[t]).exc = "none")
              => IF FetchRequested(decision'[t])
                 THEN /\ Len(invoked'[t]) = Len(invoked[t]) + 1
                      /\ Last(invoked'[t]).name = "get_reviews"
                      /\ Last(invoked'[t]).cycle = 0
                      /\ Len(message_history') = Len(message_history) + 1
                      /\ IsPrefix(message_history, message_history')
                      /\ IsReviewContext(Last(message_history'))
                      /\ IF Last(invoked'[t]).outcome = "ok"
                         THEN Last(Last(message_history').content) = "REVIEWS"
                         ELSE CarriesFailure(Last(message_history').content)
                 ELSE /\ invoked'[t] = invoked[t]
                      /\ message_history' = message_history]_vars

\* the augmenter has appended the failure description of a failed get_reviews
C17_Witness ==
    \E t \in Tasks :
        /\ pc[t] = "generate"
        /\ turnTexts[t] = <<>>
        /\ Len(invoked[t]) = 1
        /\ invoked[t][1].name = "get_reviews"
        /\ invoked[t][1].outcome = "raise"
        /\ CarriesFailure(Last(message_history).content)

\* C18: when a turn reaches TERMINATE, the last message of the session history is
\* the assistant message holding the most recent generated text, that text
\* contains none of the four tested call forms, and every system message after
\* index 0 is followed by a later assistant message.
C18_TerminateOnAssistantText ==
    [][\A t \in Tasks :
          (pc'[t] = "done" /\ pc[t] # "done") =>
              /\ turnTexts'[t] # <<>>
              /\ Last(message_history') = Msg("assistant", Last(turnTexts'[t]))
              /\ ~HasCallForm(Last(turnTexts'[t]))
              /\ \A i \in 2..Len(message_history') :
                     message_history'[i].role = "system" =>
                         \E j \in (i + 1)..Len(message_history') :
                             message_history'[j].role = "assistant"]_vars

\* a turn has ended after a tool result and a final plain answer
C18_Witness ==
    \E t \in Tasks :
        /\ pc[t] = "done"
        /\ Len(serviced[t]) = 1
        /\ Len(message_history) >= 5
        /\ message_history[Len(message_history) - 1].role = "system"
        /\ Last(message_history) = Msg("assistant", ProseText)

\* C19: the dispatch loop never invokes get_reviews: a response whose only call
\* form is get_reviews( is plain text that ends the turn with no dispatch cycle
\* and no handler, and get_reviews is invoked only by the augmenter, before the
\* first generation of the turn.
C19_ReviewsOnlyByAugmenter ==
    \A t \in Tasks :
        /\ \A i \in 1..Len(invoked[t]) :
               invoked[t][i].name = "get_reviews" => (invoked[t][i].cycle = 0 /\ i = 1)
        /\ \A c \in 1..Len(turnTexts[t]) :
               (Contains(turnTexts[t][c], OpenParenForm("get_reviews"))
                    /\ ~HasCallForm(turnTexts[t][c])) =>
                   /\ c = Len(turnTexts[t])
                   /\ Len(serviced[t]) < c
                   /\ pc[t] \in {"inspect", "done"}
                   /\ \A i \in 1..Len(invoked[t]) : invoked[t][i].cycle < c

\* a turn has ended on get_reviews(1) with no capability invoked
C19_Witness ==
    \E t \in Tasks :
        /\ pc[t] = "done"
        /\ turnTexts[t] = <<ReviewsCall>>
        /\ invoked[t] = <<>>

====
